---- MODULE Spec2Model ----
(***************************************************************************)
(* Channel receivers of lightyear.                                         *)
(*                                                                         *)
(*   OrderedReliableReceiver      shared/src/channel/receivers/            *)
(*                                ordered_reliable.rs                      *)
(*   SequencedUnreliableReceiver  shared/src/channel/receivers/            *)
(*                                sequenced_unreliable.rs                  *)
(*                                                                         *)
(* MessageId (packet/wrapping_id.rs), the message types                    *)
(* (packet/message.rs), FragmentReceiver                                   *)
(* (channel/receivers/fragment_receiver.rs) and the channel senders are    *)
(* modelled as the design specification describes them (sections 3, 4.2).  *)
(***************************************************************************)
EXTENDS Integers, Sequences, FiniteSets, TLC

VARIABLES
    \* ---- OrderedReliableReceiver (ordered_reliable.rs:15-23)
    pending_recv_message_id,   \* next MessageId the receiver waits for
    recv_message_buffer,       \* BTreeMap<MessageId, SingleData>
    fragment_receiver,         \* FragmentReceiver: one slot per MessageId
    \* ---- observation of the ordered receiver (history, not program state)
    ord_last,                  \* the last call: operation, argument, result
    ord_returned,              \* Some(..) results of read_message, with position
    ord_num_returned,          \* number of Some(..) results so far
    ord_runs,                  \* positions covered by InOrderRun steps
    ord_inserted,              \* per message: number of insertions in the buffer
    ord_arrived,               \* fragments handed to buffer_recv so far
    ord_late,                  \* some copy arrived outside the half window
    \* ---- sender side of the reliable ordered channel (liveness only)
    sent,                      \* number of messages the sender has assigned ids to
    \* ---- SequencedUnreliableReceiver (sequenced_unreliable.rs:13-19)
    seq_recv_message_buffer,   \* VecDeque<SingleData>
    most_recent_message_id,    \* highest message id received so far
    seq_fragment_receiver,     \* FragmentReceiver
    \* ---- observation of the sequenced receiver (history, not program state)
    seq_last,                  \* the last call: operation, argument, result
    seq_returned,              \* Some(..) results of read_message, in order
    seq_accepted,              \* number of messages buffer_recv did not drop
    seq_advance,               \* total forward movement of most_recent_message_id
    seq_stamps,                \* seq_advance when each buffered message was queued
    seq_inserted,              \* per message: number of pushes to the buffer
    seq_arrived,               \* fragments handed to buffer_recv so far
    \* ---- the client app (client/networking.rs)
    world,                     \* the resources and entities the systems work on
    pc,                        \* the point of the frame that runs next
    todo,                      \* systems of the Receive set still to run
    \* ---- observation of the client app (history, not program state)
    cli_last,                  \* the last system that ran and its input
    frame_entered,             \* states entered by this frame's StateTransition
    sessions,                  \* the ConnectionManager of each entry into Connected
    disconnect_requested,      \* disconnect_client was called, Disconnected not entered
    send_failed,               \* NetClient::send failed, Disconnected not entered
    frame_systems,             \* the networking systems run so far in this frame
    session_log,               \* events and entities of the sessions so far
    \* ---- the server (server.rs:13-25)
    server,                    \* the Server: netcode, callback channels, user_connections
    srv_last,                  \* the last call: operation, argument, result
    srv_used                   \* client indices whose Connection has held messages

ordVars == <<pending_recv_message_id, recv_message_buffer, fragment_receiver>>
ordObs == <<ord_last, ord_returned, ord_num_returned, ord_runs, ord_inserted,
            ord_arrived, ord_late>>
seqVars == <<seq_recv_message_buffer, most_recent_message_id, seq_fragment_receiver>>
seqObs == <<seq_last, seq_returned, seq_accepted, seq_advance, seq_stamps,
            seq_inserted, seq_arrived>>
recvVars == <<ordVars, ordObs, sent, seqVars, seqObs>>
clientVars == <<world, pc, todo, cli_last, frame_entered, sessions,
                disconnect_requested, send_failed, frame_systems, session_log>>
serverVars == <<server, srv_last, srv_used>>
vars == <<recvVars, clientVars, serverVars>>

(***************************************************************************)
(* Bounds of the model.                                                    *)
(***************************************************************************)
\* number of fragments of the one fragmented message of the catalogue
FragmentCount == 3
\* number of InOrderRun steps in one behaviour
MaxRuns == 2
\* number of messages the sender of the liveness specification sends
MaxSent == 3
\* number of arrivals the sequenced receiver accepts in one behaviour
MaxAccepted == 4
\* number of entries of the server's two callback channels
MaxQueued == 2
\* number of packets the netcode server holds, and one Connection receives
MaxServerPackets == 2
\* number of messages queued on one Connection between two send_packets
MaxOutbox == 1
\* number of connect_client requests that lead to a connection attempt
MaxConnects == 2

(***************************************************************************)
(* MessageId: a 16-bit wrapping counter.                                   *)
(***************************************************************************)
IdModulus == 2 ^ 16
HalfRange == 2 ^ 15

WrapId(n) == n % IdModulus

\* number of messages one InOrderRun step delivers
RunLen == HalfRange - 1

\* a < b  iff  (b - a) mod 2^16 is in (0, 2^15]
Less(a, b) == LET d == (b - a) % IdModulus IN d > 0 /\ d <= HalfRange

(***************************************************************************)
(* Messages.  Option<T> is a set with at most one element.                 *)
(*   MessageContainer::Single(SingleData { id: Option<MessageId>, bytes }) *)
(*   MessageContainer::Fragment(FragmentData { message_id, fragment_id,    *)
(*                                             num_fragments, bytes })     *)
(* A byte string is a sequence of tokens <<n, i>>: piece i of the payload  *)
(* of the sender's n-th message.                                           *)
(***************************************************************************)
None == {}
Some(x) == {x}
Unwrap(o) == CHOOSE x \in o : TRUE

SingleData(id, bytes) == [id |-> id, bytes |-> bytes]
Single(id, bytes) == [kind |-> "Single", id |-> id, bytes |-> bytes]
Fragment(message_id, fragment_id, num_fragments, bytes) ==
    [kind |-> "Fragment", id |-> Some(message_id), fragment_id |-> fragment_id,
     num_fragments |-> num_fragments, bytes |-> bytes]

\* MessageContainer::id()
MessageIdOf_OrDefault(message) == IF message.id = None THEN Some(0) ELSE message.id
MessageIdOf(message) == message.id

\* the sender's message number a payload belongs to
MsgOf(data) == data.bytes[1][1]

(***************************************************************************)
(* What the network may hand to a receiver.  The sender numbers its        *)
(* messages 0, 1, 2, ... and gives message n the id n mod 2^16; message 1  *)
(* is larger than fragment_size and travels as FragmentCount fragments.    *)
(* The network may lose, reorder, delay and duplicate, so any copy of any  *)
(* message of the catalogue may arrive at any time, any number of times.   *)
(***************************************************************************)
MsgNums == {0, 1, 2, 60000, IdModulus - 1, IdModulus}

NumFragmentsOf(n) == IF n = 1 THEN FragmentCount ELSE 1

Token(n, i) == << <<n, i>> >>

SenderMessages(n) ==
    IF NumFragmentsOf(n) = 1
    THEN {Single(Some(WrapId(n)), Token(n, 0))}
    ELSE {Fragment(WrapId(n), i, NumFragmentsOf(n), Token(n, i)) :
            i \in 0 .. NumFragmentsOf(n) - 1}

\* the messages of the liveness specification that are followed one by one:
\* the first MaxSent, and the one sent after MaxRuns runs of RunLen more
LiveLastMsg == MaxSent + MaxRuns * RunLen
LiveMsgNums == (0 .. MaxSent - 1) \cup {LiveLastMsg}

\* a Single whose id was never set (MessageContainer::new before set_id)
NoIdMessage == Single(None, Token(0, 0))


OrdArrivals == UNION {SenderMessages(n) : n \in MsgNums} \cup {NoIdMessage}

(***************************************************************************)
(* FragmentReceiver: one slot per MessageId holding the fragments that     *)
(* have arrived; on completion the slot is freed and a single SingleData   *)
(* with the bytes concatenated in index order is yielded.                  *)
(***************************************************************************)
EmptyMap == [x \in {} |-> {}]

MapRemove(map, key) == [x \in DOMAIN map \ {key} |-> map[x]]
MapInsert(map, key, value) ==
    [x \in DOMAIN map \cup {key} |-> IF x = key THEN value ELSE map[x]]

RECURSIVE ConcatFragments(_, _)
ConcatFragments(slot, k) ==
    IF k = 0 THEN << >> ELSE ConcatFragments(slot, k - 1) \o slot[k - 1]

\* FragmentReceiver::receive_fragment: the receiver afterwards and the
\* Option<SingleData> it returns
ReceiveFragment(receiver, data) ==
    LET id == Unwrap(data.id)
        slot == IF id \in DOMAIN receiver THEN receiver[id] ELSE EmptyMap
        filled == IF data.fragment_id \in DOMAIN slot
                  THEN slot
                  ELSE MapInsert(slot, data.fragment_id, data.bytes)
    IN  IF Cardinality(DOMAIN filled) = data.num_fragments
        THEN [receiver |-> MapRemove(receiver, id),
              single |-> Some(SingleData(Some(id),
                              ConcatFragments(filled, data.num_fragments)))]
        ELSE [receiver |-> MapInsert(receiver, id, filled), single |-> None]

(***************************************************************************)
(* OrderedReliableReceiver                                                 *)
(***************************************************************************)
Call(op, arg, ok, out) == [op |-> op, arg |-> arg, ok |-> ok, out |-> out]

\* ordered_reliable.rs:43  `if message_id < self.pending_recv_message_id`
Ordered_IsTooOld_Never(message_id, pending) == FALSE
Ordered_IsTooOld(message_id, pending) == Less(message_id, pending)

\* ordered_reliable.rs:48  `if let Entry::Vacant(entry) = ...entry(message_id)`
Ordered_IsVacant_Always(buffer, message_id) == TRUE
Ordered_IsVacant(buffer, message_id) == message_id \notin DOMAIN buffer

\* ordered_reliable.rs:49-56: what, if anything, is inserted at the vacant
\* entry, and the fragment receiver afterwards
Ordered_Store_FragmentAsSingle(receiver, message) ==
    [receiver |-> receiver,
     single |-> Some(SingleData(message.id, message.bytes))]
Ordered_Store(receiver, message) ==
    IF message.kind = "Single"
    THEN [receiver |-> receiver,
          single |-> Some(SingleData(message.id, message.bytes))]
    ELSE ReceiveFragment(receiver, message)

\* ordered_reliable.rs:76  `self.pending_recv_message_id += 1`
Ordered_NextPending_Stay(pending) == pending
Ordered_NextPending_Skip(pending) == WrapId(pending + 2)
Ordered_NextPending(pending) == WrapId(pending + 1)

\* ordered_reliable.rs:67-69  `.remove(&self.pending_recv_message_id)`: the key
\* that is looked up
Ordered_ReadKey_First(buffer, pending) ==
    IF DOMAIN buffer = {} THEN pending
    ELSE CHOOSE k \in DOMAIN buffer : \A j \in DOMAIN buffer : k <= j
Ordered_ReadKey(buffer, pending) == pending

\* ordered_reliable.rs:67-72  the buffer after `.remove(..)` returned Some
Ordered_Remove_Keep(buffer, key) == buffer
Ordered_Remove(buffer, key) == MapRemove(buffer, key)

\* a copy of message n reaches the receiver while `returned` messages have
\* been read: within the window in which a 16-bit id identifies it
InWindow(n, returned) == returned - n <= HalfRange /\ n - returned < IdModulus

\* OrderedReliableReceiver::buffer_recv
Ordered_buffer_recv(message) ==
    /\ UNCHANGED <<pending_recv_message_id, ord_returned, ord_num_returned, ord_runs>>
    /\ ord_arrived' = IF message.kind = "Fragment"
                      THEN ord_arrived \cup {message.bytes[1]}
                      ELSE ord_arrived
    /\ IF MessageIdOf(message) = None
       THEN \* `.ok_or_else(|| anyhow!("message id not found"))?`
            /\ ord_last' = Call("buffer_recv", Some(message), FALSE, None)
            /\ UNCHANGED <<recv_message_buffer, fragment_receiver, ord_inserted, ord_late>>
       ELSE LET message_id == Unwrap(MessageIdOf(message)) IN
            /\ ord_last' = Call("buffer_recv", Some(message), TRUE, None)
            /\ ord_late' = (ord_late \/ ~InWindow(MsgOf(message), ord_num_returned))
            /\ IF Ordered_IsTooOld(message_id, pending_recv_message_id)
               THEN UNCHANGED <<recv_message_buffer, fragment_receiver, ord_inserted>>
               ELSE IF Ordered_IsVacant(recv_message_buffer, message_id)
               THEN LET stored == Ordered_Store(fragment_receiver, message) IN
                    /\ fragment_receiver' = stored.receiver
                    /\ IF stored.single # None
                       THEN /\ recv_message_buffer' =
                                 MapInsert(recv_message_buffer, message_id,
                                           Unwrap(stored.single))
                            /\ ord_inserted' =
                                 [ord_inserted EXCEPT ![MsgOf(message)] = @ + 1]
                       ELSE UNCHANGED <<recv_message_buffer, ord_inserted>>
               ELSE UNCHANGED <<recv_message_buffer, fragment_receiver, ord_inserted>>

\* OrderedReliableReceiver::read_message
Ordered_read_message ==
    LET key == Ordered_ReadKey(recv_message_buffer, pending_recv_message_id) IN
    /\ UNCHANGED <<fragment_receiver, ord_runs, ord_inserted, ord_arrived, ord_late>>
    /\ IF key \in DOMAIN recv_message_buffer
       THEN LET message == recv_message_buffer[key] IN
            /\ recv_message_buffer' = Ordered_Remove(recv_message_buffer, key)
            /\ pending_recv_message_id' = Ordered_NextPending(pending_recv_message_id)
            /\ ord_last' = Call("read_message", None, TRUE, Some(message))
            /\ ord_returned' = Append(ord_returned,
                                      [pos |-> ord_num_returned, data |-> message])
            /\ ord_num_returned' = ord_num_returned + 1
       ELSE /\ ord_last' = Call("read_message", None, TRUE, None)
            /\ UNCHANGED <<recv_message_buffer, pending_recv_message_id,
                           ord_returned, ord_num_returned>>

(***************************************************************************)
(* InOrderRun: RunLen times in a row, the message the receiver waits for   *)
(* arrives (buffer_recv of its Single, or of its last missing fragment)    *)
(* and is read at once (read_message).  Each of the RunLen pairs of calls  *)
(* inserts the awaited id at a vacant entry, removes it again and adds one *)
(* to pending_recv_message_id; the step is taken only when no entry and no *)
(* fragment slot of the ids it passes exists, so that nothing else         *)
(* changes.  It is how a behaviour of a few steps gets around the 16-bit   *)
(* id space.                                                               *)
(***************************************************************************)
InRun(id) == (id - pending_recv_message_id) % IdModulus < RunLen

InOrderRun ==
    /\ Len(ord_runs) < MaxRuns
    /\ \A id \in DOMAIN recv_message_buffer \cup DOMAIN fragment_receiver : ~InRun(id)
    /\ pending_recv_message_id' = WrapId(pending_recv_message_id + RunLen)
    /\ ord_num_returned' = ord_num_returned + RunLen
    /\ ord_runs' = Append(ord_runs, [first |-> ord_num_returned, len |-> RunLen])
    /\ ord_last' = Call("run", None, TRUE, None)
    /\ UNCHANGED <<recv_message_buffer, fragment_receiver, ord_returned,
                   ord_inserted, ord_arrived, ord_late>>

(***************************************************************************)
(* SequencedUnreliableReceiver                                             *)
(***************************************************************************)
SeqMsgNums == {0, 1, 2, 20000, 40000, 60000}

SeqArrivals == UNION {SenderMessages(n) : n \in SeqMsgNums} \cup {NoIdMessage}

\* sequenced_unreliable.rs:39  `if message_id < self.most_recent_message_id`
Sequenced_IsTooOld_Never(message_id, most_recent) == FALSE
Sequenced_IsTooOld(message_id, most_recent) == Less(message_id, most_recent)

\* sequenced_unreliable.rs:44-46  the most recent id after a message that was
\* not dropped
Sequenced_MostRecent_Keep(message_id, most_recent) == most_recent
Sequenced_MostRecent(message_id, most_recent) ==
    IF Less(most_recent, message_id) THEN message_id ELSE most_recent

\* sequenced_unreliable.rs:49-56: what, if anything, is pushed to the back of
\* the buffer, and the fragment receiver afterwards
Sequenced_Store(receiver, message) ==
    IF message.kind = "Single"
    THEN [receiver |-> receiver,
          single |-> Some(SingleData(message.id, message.bytes))]
    ELSE ReceiveFragment(receiver, message)

\* sequenced_unreliable.rs:60  `self.recv_message_buffer.pop_front()`: the
\* index of the element that is taken out
Sequenced_PopIndex_Back(buffer) == Len(buffer)
Sequenced_PopIndex(buffer) == 1

SeqRemoveAt(seq, k) == [i \in 1 .. Len(seq) - 1 |-> IF i < k THEN seq[i] ELSE seq[i + 1]]

\* SequencedUnreliableReceiver::buffer_recv
Sequenced_buffer_recv(message) ==
    /\ UNCHANGED seq_returned
    /\ seq_arrived' = IF message.kind = "Fragment"
                      THEN seq_arrived \cup {message.bytes[1]}
                      ELSE seq_arrived
    /\ IF MessageIdOf(message) = None
       THEN /\ seq_last' = Call("buffer_recv", Some(message), FALSE, None)
            /\ UNCHANGED <<seqVars, seq_accepted, seq_advance, seq_stamps,
                           seq_inserted>>
       ELSE LET message_id == Unwrap(MessageIdOf(message)) IN
            /\ seq_last' = Call("buffer_recv", Some(message), TRUE, None)
            /\ IF Sequenced_IsTooOld(message_id, most_recent_message_id)
               THEN UNCHANGED <<seqVars, seq_accepted, seq_advance, seq_stamps,
                                seq_inserted>>
               ELSE LET stored == Sequenced_Store(seq_fragment_receiver, message) IN
                    /\ most_recent_message_id' =
                           Sequenced_MostRecent(message_id, most_recent_message_id)
                    /\ seq_fragment_receiver' = stored.receiver
                    /\ seq_accepted' = seq_accepted + 1
                    /\ seq_advance' = seq_advance
                           + WrapId(most_recent_message_id' - most_recent_message_id)
                    /\ IF stored.single # None
                       THEN /\ seq_recv_message_buffer' =
                                   Append(seq_recv_message_buffer, Unwrap(stored.single))
                            /\ seq_stamps' = Append(seq_stamps, seq_advance')
                            /\ seq_inserted' =
                                 [seq_inserted EXCEPT ![MsgOf(message)] = @ + 1]
                       ELSE UNCHANGED <<seq_recv_message_buffer, seq_stamps,
                                       seq_inserted>>

\* SequencedUnreliableReceiver::read_message
Sequenced_read_message ==
    /\ UNCHANGED <<most_recent_message_id, seq_fragment_receiver,
                   seq_accepted, seq_advance, seq_inserted, seq_arrived>>
    /\ IF seq_recv_message_buffer = << >>
       THEN /\ seq_last' = Call("read_message", None, TRUE, None)
            /\ UNCHANGED <<seq_recv_message_buffer, seq_returned, seq_stamps>>
       ELSE LET k == Sequenced_PopIndex(seq_recv_message_buffer) IN
            /\ seq_last' = Call("read_message", None, TRUE,
                                Some(seq_recv_message_buffer[k]))
            /\ seq_returned' = Append(seq_returned,
                                      [data |-> seq_recv_message_buffer[k],
                                       adv |-> seq_stamps[k]])
            /\ seq_recv_message_buffer' = SeqRemoveAt(seq_recv_message_buffer, k)
            /\ seq_stamps' = SeqRemoveAt(seq_stamps, k)

(***************************************************************************)
(* The client networking plugin (lightyear/src/client/networking.rs).      *)
(*                                                                         *)
(* One frame of the app runs, in this order: PreUpdate (listen_io_state,   *)
(* then the Receive set: listen_io_state and receive), StateTransition     *)
(* (the OnEnter systems connect, on_connect, on_disconnect), Update (the   *)
(* application's systems, which may issue connect_client and               *)
(* disconnect_client), PostUpdate (sync_update, then send).                *)
(*                                                                         *)
(* The resources the systems work on are put in one record, the world, and *)
(* every system is a function from world to world.                         *)
(***************************************************************************)
NetworkingState == {"Disconnected", "Connecting", "Connected"}

\* IoState of the client's io, "None" when the connection has no io
IoStates == {"None", "Connecting", "Connected", "Disconnected"}

\* what try_recv on the io event receiver yields; "NoReceiver" when the io
\* has no event receiver
IoEvents == {"Connected", "Disconnected", "Empty", "Closed", "NoReceiver"}

\* the combinations of shared.mode and net in ClientConfig
ClientConfigs ==
    [mode : {"Separate", "HostServer"}, net : {"Netcode", "Local"}, id : {7}]

\* entities by the marker they carry; "Other" carries none of the markers of
\* replication, "Controlled" is the entity of the host-server client
ReceivedKinds == {"Replicated", "Predicted", "Interpolated"}
EntityKinds == ReceivedKinds \cup {"Other"}

\* SharedConfig::is_host_server_condition
is_host_server_condition(config) == config.mode = "HostServer"

\* NetClient::state
NetClientState(c) == c.state

\* networking.rs:421-426  is_disconnected
is_disconnected(client) ==
    IF client = None THEN TRUE
    ELSE LET c == Unwrap(client) IN
         \/ NetClientState(c) = "Disconnected"
         \/ (IF c.io = "None" THEN TRUE ELSE c.io = "Disconnected")

\* networking.rs:408-413  is_connected
is_connected_StateOnly(client) ==
    IF client = None THEN FALSE
    ELSE NetClientState(Unwrap(client)) = "Connected"
is_connected(client) ==
    IF client = None THEN FALSE
    ELSE LET c == Unwrap(client) IN
         /\ NetClientState(c) = "Connected"
         /\ (IF c.io = "None" THEN FALSE ELSE c.io = "Connected")

\* run_if(not(SharedConfig::is_host_server_condition.or_else(is_disconnected)))
RunNetworking_HostServerOnly(w) == ~is_host_server_condition(w.client_config)
RunNetworking(w) ==
    ~(is_host_server_condition(w.client_config) \/ is_disconnected(w.netclient))

\* ConnectionManager::new and NetConfig::build_client
NewConnectionManager(build) == [build |-> build, synced |-> FALSE, received |-> {}]
SetSynced(connection, synced) == {[m EXCEPT !.synced = synced] : m \in connection}
BuildClient(config, build) ==
    [build |-> build, kind |-> config.net, id |-> config.id,
     state |-> "Disconnected", io |-> "None"]

\* NetClient::connect: the local client is connected at once (local/client.rs:
\* 26-29); the netcode client opens its io and starts the handshake, or fails
\* and stays as it was
NetClientConnect(c, outcome) ==
    IF c.kind = "Local" THEN [c EXCEPT !.state = "Connected"]
    ELSE IF outcome = "Err" THEN c
    ELSE [c EXCEPT !.state = "Connecting", !.io = outcome]

\* NetClient::disconnect (local/client.rs:31-34)
NetClientDisconnect(c) == [c EXCEPT !.state = "Disconnected"]

\* NetClient::try_update: the local client does nothing (local/client.rs:
\* 44-46); the netcode client takes what the transport reports
NetClientTryUpdate(c, reported) ==
    IF c.kind = "Local" THEN c ELSE [c EXCEPT !.state = reported]

\* what the transport of a netcode client may report in one update
TransportReports(c) ==
    IF c.state = "Connecting" THEN {"Connecting", "Connected", "Disconnected"}
    ELSE {"Connected", "Disconnected"}

Called(w, call) == [w EXCEPT !.calls = Append(@, call)]

\* networking.rs:443-469  rebuild_client_connection
rebuild_client_connection_KeepManager(w) ==
    LET build == w.builds + 1 IN
    [w EXCEPT !.builds = build,
              !.connection = IF @ = None THEN Some(NewConnectionManager(build))
                             ELSE @,
              !.netclient = Some(BuildClient(w.client_config, build)),
              !.calls = Append(@, "rebuild_client_connection")]
rebuild_client_connection(w) ==
    LET build == w.builds + 1 IN
    [w EXCEPT !.builds = build,
              !.connection = Some(NewConnectionManager(build)),
              !.netclient = Some(BuildClient(w.client_config, build)),
              !.calls = Append(@, "rebuild_client_connection")]

\* networking.rs:478-508  connect
connect(w, outcome) ==
    LET w1 == rebuild_client_connection(w)
        c == NetClientConnect(Unwrap(w1.netclient), outcome)
        w2 == Called([w1 EXCEPT !.netclient = Some(c)], "connect")
    IN  IF NetClientState(c) = "Connected" /\ w2.client_config.mode = "HostServer"
        THEN [w2 EXCEPT !.next_state = Some("Connected")]
        ELSE w2

\* networking.rs:338-344  on_connect
on_connect_Silent(w) == w
on_connect(w) ==
    [w EXCEPT !.events = Append(@, [type |-> "ConnectEvent",
                                    client_id |-> Unwrap(w.netclient).id])]

\* networking.rs:347-361  on_connect_host_server
on_connect_host_server(w) ==
    LET entity == w.client_entities + 1 IN
    [w EXCEPT !.entities = @ \cup {"Controlled"},
              !.client_entities = entity,
              !.events = Append(@, [type |-> "server::ConnectEvent",
                                    client_id |-> Unwrap(w.netclient).id,
                                    entity |-> entity]),
              !.metadata = Some(entity)]

\* networking.rs:374-376  the entities left after the despawns
Despawned_OnlyReplicated(entities) == entities \ {"Replicated"}
Despawned(entities) == entities \ ReceivedKinds

\* networking.rs:365-388  on_disconnect
on_disconnect_KeepSynced(w) ==
    Called([w EXCEPT !.entities = Despawned(@),
                     !.despawned = w.entities \ Despawned(w.entities),
                     !.netclient = Some(NetClientDisconnect(Unwrap(@))),
                     !.events = Append(@, [type |-> "DisconnectEvent"])],
           "disconnect")
on_disconnect(w) ==
    Called([w EXCEPT !.entities = Despawned(@),
                     !.despawned = w.entities \ Despawned(w.entities),
                     !.connection = SetSynced(@, FALSE),
                     !.netclient = Some(NetClientDisconnect(Unwrap(@))),
                     !.events = Append(@, [type |-> "DisconnectEvent"])],
           "disconnect")

\* networking.rs:390-402  on_disconnect_host_server
on_disconnect_host_server_KeepEntity(w) ==
    IF w.metadata # None
    THEN [w EXCEPT !.events = Append(@, [type |-> "server::DisconnectEvent",
                                         client_id |-> Unwrap(w.netclient).id,
                                         entity |-> Unwrap(w.metadata)])]
    ELSE w
on_disconnect_host_server(w) ==
    IF w.metadata # None
    THEN [w EXCEPT !.metadata = None,
                   !.events = Append(@, [type |-> "server::DisconnectEvent",
                                         client_id |-> Unwrap(w.netclient).id,
                                         entity |-> Unwrap(w.metadata)])]
    ELSE w

\* networking.rs:114-132  the OnEnter schedules
OnEnter(entered, w, outcome) ==
    LET host == is_host_server_condition(w.client_config) IN
    CASE entered = "Connecting" -> connect(w, outcome)
      [] entered = "Connected" ->
            LET w1 == on_connect(w) IN
            IF host THEN on_connect_host_server(w1) ELSE w1
      [] entered = "Disconnected" ->
            LET w1 == on_disconnect(w) IN
            IF host THEN on_disconnect_host_server(w1) ELSE w1

\* networking.rs:305-316  the io events on which listen_io_state disconnects
IoEventDisconnects_OnlyDisconnected(event) == event = "Disconnected"
IoEventDisconnects(event) == event \in {"Disconnected", "Closed"}

\* the io state after the event (networking.rs:303, 307)
IoStateAfter(io, event) ==
    CASE event = "Connected" -> "Connected"
      [] event = "Disconnected" -> "Disconnected"
      [] OTHER -> io

\* networking.rs:293-327  listen_io_state
listen_io_state(w, event) ==
    LET c == Unwrap(w.netclient)
        seen == IF c.io = "None" THEN "NoReceiver" ELSE event
        c1 == [c EXCEPT !.io = IoStateAfter(@, seen)]
        w1 == [w EXCEPT !.netclient = Some(c1)]
    IN  IF IoEventDisconnects(seen)
        THEN Called([w1 EXCEPT !.next_state = Some("Disconnected"),
                               !.netclient = Some(NetClientDisconnect(c1))],
                    "disconnect")
        ELSE w1

\* networking.rs:171-176  the receive system requests Connected
ReceiveRequestsConnected_Never(client_state, app_state) == FALSE
ReceiveRequestsConnected(client_state, app_state) ==
    client_state = "Connected" /\ app_state # "Connected"

\* ConnectionManager::recv_packet: a well-formed packet is decoded and
\* buffered, a malformed one is an error that leaves the manager as it was
recv_packet(connection, packet) ==
    IF packet.ok
    THEN [ok |-> TRUE,
          connection |-> [connection EXCEPT !.received = @ \cup {packet.id}]]
    ELSE [ok |-> FALSE, connection |-> connection]

\* the packets of a batch that decode
WellFormed(packets) == {packets[i].id : i \in {j \in DOMAIN packets : packets[j].ok}}

\* NetClient::recv: payload packets come from a connected netcode client; the
\* local client has none (local/client.rs:48-50)
NetClientRecv(c, packets) ==
    IF c.kind = "Netcode" /\ NetClientState(c) = "Connected" THEN packets ELSE << >>

\* networking.rs:192-196  `while let Some(packet) = netclient.recv()` with
\* `connection.recv_packet(..).unwrap()`: an error panics the system
RECURSIVE RecvLoop(_, _)
RecvLoop(w, packets) ==
    IF packets = << >> THEN w
    ELSE LET r == recv_packet(Unwrap(w.connection), Head(packets))
             w1 == Called(w, "recv_packet")
         IN  IF r.ok
             THEN RecvLoop([w1 EXCEPT !.connection = Some(r.connection)], Tail(packets))
             ELSE [w1 EXCEPT !.panicked = TRUE]

\* networking.rs:136-209  receive
receive(w, reported, spawned, packets) ==
    LET c == Unwrap(w.netclient)
        state == w.state
        c1 == IF NetClientState(c) # "Disconnected"
              THEN NetClientTryUpdate(c, reported) ELSE c
        w1 == [w EXCEPT !.netclient = Some(c1)]
        w2 == IF ReceiveRequestsConnected(NetClientState(c1), state)
              THEN [w1 EXCEPT !.next_state = Some("Connected")] ELSE w1
        w3 == IF NetClientState(c1) = "Connected" THEN Called(w2, "connection.update")
              ELSE w2
        w4 == IF NetClientState(c1) = "Disconnected" /\ state # "Disconnected"
              THEN [w3 EXCEPT !.next_state = Some("Disconnected")] ELSE w3
        w5 == RecvLoop(w4, NetClientRecv(c1, packets))
    IN  IF w5.panicked THEN w5
        ELSE Called([w5 EXCEPT !.entities =
                        IF NetClientState(c1) = "Connected" THEN @ \cup spawned ELSE @],
                    "connection.receive")

\* networking.rs:245-278  sync_update
sync_update(w, synced) ==
    LET w1 == Called(IF NetClientState(Unwrap(w.netclient)) = "Connected"
                     THEN [w EXCEPT !.connection = SetSynced(@, synced)]
                     ELSE w,
                     "sync_manager.update")
    IN  IF Unwrap(w1.connection).synced
        THEN Called(Called(w1, "update_prediction_time"), "set_relative_speed")
        ELSE w1

\* networking.rs:211-237  send: the packets are handed to the transport, and
\* an error of NetClient::send is logged
send_PacketsFirst(w, results) ==
    [w EXCEPT !.calls = @ \o <<"send_packets", "buffer_replication_messages">>
                          \o [i \in 1 .. Len(results) |-> "send"]]
send(w, results) ==
    [w EXCEPT !.calls = @ \o <<"buffer_replication_messages", "send_packets">>
                          \o [i \in 1 .. Len(results) |-> "send"]]

\* networking.rs:529-539  ClientCommands
connect_client(w) == [w EXCEPT !.next_state = Some("Connecting")]
disconnect_client(w) == [w EXCEPT !.next_state = Some("Disconnected")]

\* apply_state_transition of the StateTransition schedule, preceded in the
\* first frame by the OnEnter schedule of the initial state
\* (networking.rs:44 init_state)
apply_state_transition(w, outcome) ==
    LET w1 == IF w.started THEN w
              ELSE OnEnter(w.state, [w EXCEPT !.started = TRUE], outcome)
        taken == w1.next_state
        w2 == [w1 EXCEPT !.next_state = None]
    IN  IF taken # None /\ Unwrap(taken) # w2.state
        THEN OnEnter(Unwrap(taken), [w2 EXCEPT !.state = Unwrap(taken)], outcome)
        ELSE w2

\* the app before ClientNetworkingPlugin::build
NewWorld ==
    [client_config |-> [mode |-> "Separate", net |-> "Netcode", id |-> 7],
     state |-> "Disconnected", next_state |-> None, started |-> FALSE,
     netclient |-> None, connection |-> None, builds |-> 0,
     entities |-> {}, despawned |-> {}, client_entities |-> 0,
     metadata |-> None, events |-> << >>,
     calls |-> << >>, panicked |-> FALSE]

(***************************************************************************)
(* The server (src/server/src/server.rs).  The netcode server is outside   *)
(* this source: it is the set of client indices it holds connected, the    *)
(* two channels its callbacks write to, and the payload packets it has     *)
(* read from the io.                                                       *)
(***************************************************************************)
ClientIndices == {0, 1}
Callbacks == [kind : {"connect", "disconnect"}, idx : ClientIndices]
CallbackSeqs ==
    {<< >>} \cup {<<a>> : a \in Callbacks} \cup {<<a, b>> : a, b \in Callbacks}
ServerPackets == [client : ClientIndices, ok : BOOLEAN]

\* Connection::new
NewConnection == [outbox |-> << >>, received |-> 0]

\* server.rs:28-57  Server::new
NewServer ==
    [netcode |-> {}, connections |-> << >>, disconnections |-> << >>,
     packets |-> << >>, user_connections |-> EmptyMap, panicked |-> FALSE]

\* the callbacks of one try_update can occur in this order: an index is
\* accepted when it is free and disconnected when it is connected
RECURSIVE CallbacksPossible(_, _)
CallbacksPossible(clients, cbs) ==
    IF cbs = << >> THEN TRUE
    ELSE LET cb == Head(cbs)
         IN  IF cb.kind = "connect"
             THEN cb.idx \notin clients
                  /\ CallbacksPossible(clients \cup {cb.idx}, Tail(cbs))
             ELSE cb.idx \in clients
                  /\ CallbacksPossible(clients \ {cb.idx}, Tail(cbs))

\* server.rs:37-42  the on_connect and on_disconnect callbacks send the index
\* on their channel
RECURSIVE FireCallbacks(_, _)
FireCallbacks(s, cbs) ==
    IF cbs = << >> THEN s
    ELSE LET cb == Head(cbs)
             s1 == IF cb.kind = "connect"
                   THEN [s EXCEPT !.netcode = @ \cup {cb.idx},
                                  !.connections = Append(@, cb.idx)]
                   ELSE [s EXCEPT !.netcode = @ \ {cb.idx},
                                  !.disconnections = Append(@, cb.idx)]
         IN  FireCallbacks(s1, Tail(cbs))

\* netcode.try_update: clients are accepted and dropped
try_update(s, cbs) == FireCallbacks(s, cbs)

\* the netcode server reads a payload packet of a connected client from the
\* io and holds it for netcode.recv()
netcode_read(s, packet) == [s EXCEPT !.packets = Append(@, packet)]

\* netcode.client_addr: the address of a connected client; of an index that
\* is no longer connected the answer is not fixed by this source
client_addr(s, idx, keeps_addr) ==
    IF idx \in s.netcode \/ keeps_addr THEN Some(idx) ELSE None

\* server.rs:96-105  `for client_idx in self.context.connections.try_iter()`
RECURSIVE HandleConnections(_, _)
HandleConnections(s, keeps_addr) ==
    IF s.connections = << >> THEN s
    ELSE LET client_idx == Head(s.connections)
             s1 == [s EXCEPT !.connections = Tail(@)]
         IN  IF client_addr(s, client_idx, keeps_addr) = None
             THEN [s1 EXCEPT !.panicked = TRUE]
             ELSE HandleConnections(
                     [s1 EXCEPT !.user_connections =
                                   MapInsert(@, client_idx, NewConnection)],
                     keeps_addr)

\* server.rs:108-111  `for client_id in self.context.disconnections.try_iter()`
RECURSIVE HandleDisconnections(_)
HandleDisconnections(s) ==
    IF s.disconnections = << >> THEN s
    ELSE HandleDisconnections(
            [s EXCEPT !.disconnections = Tail(@),
                      !.user_connections = MapRemove(@, Head(s.disconnections))])

\* server.rs:88-113  Server::update
Server_update_KeepConnections(s, cbs, result, keeps_addr) ==
    LET s1 == try_update(s, cbs)
        accepted == {s1.connections[i] : i \in DOMAIN s1.connections}
    IN  IF result = "Err" THEN [ok |-> FALSE, server |-> s1]
        ELSE [ok |-> TRUE,
              server |-> [s1 EXCEPT
                 !.connections = << >>, !.disconnections = << >>,
                 !.user_connections =
                    [idx \in DOMAIN @ \cup accepted |->
                        IF idx \in DOMAIN @ THEN @[idx] ELSE NewConnection]]]
Server_update(s, cbs, result, keeps_addr) ==
    LET s1 == try_update(s, cbs)
    IN  IF result = "Err" THEN [ok |-> FALSE, server |-> s1]
        ELSE LET s2 == HandleConnections(s1, keeps_addr)
             IN  IF s2.panicked THEN [ok |-> FALSE, server |-> s2]
                 ELSE [ok |-> TRUE, server |-> HandleDisconnections(s2)]

\* server.rs:96-105  the client indices taken from the connections channel by
\* the call of Server::update with the given result
ConnectsProcessed(s, cbs, r) ==
    LET queued == try_update(s, cbs).connections
    IN  {queued[i] : i \in 1 .. (Len(queued) - Len(r.server.connections))}

\* Connection::buffer_send: the message is queued on this connection's sender
Connection_buffer_send(connection, message) ==
    [connection EXCEPT !.outbox = Append(@, message)]

\* server.rs:75-86  Server::buffer_send
Server_buffer_send_OrInsert(s, client_id, message) ==
    [ok |-> TRUE,
     server |-> [s EXCEPT !.user_connections =
                    MapInsert(@, client_id,
                              Connection_buffer_send(
                                 IF client_id \in DOMAIN @ THEN @[client_id]
                                 ELSE NewConnection, message))]]
Server_buffer_send(s, client_id, message) ==
    IF client_id \notin DOMAIN s.user_connections
    THEN [ok |-> FALSE, server |-> s]
    ELSE [ok |-> TRUE,
          server |-> [s EXCEPT !.user_connections[client_id] =
                                  Connection_buffer_send(@, message)]]

\* server.rs:129-138  Server::send_packets
Server_send_packets(s) ==
    [s EXCEPT !.user_connections =
        [idx \in DOMAIN @ |-> [@[idx] EXCEPT !.outbox = << >>]]]

\* Connection::recv_packet: a well-formed packet is decoded and its messages
\* buffered, a malformed one is an error that leaves the connection as it was
Connection_recv_packet(connection, packet) ==
    IF packet.ok
    THEN [ok |-> TRUE, connection |-> [connection EXCEPT !.received = @ + 1]]
    ELSE [ok |-> FALSE, connection |-> connection]

\* server.rs:140-154  Server::recv_packets
RECURSIVE Server_recv_packets(_)
Server_recv_packets(s) ==
    IF s.packets = << >> THEN [ok |-> TRUE, server |-> s]
    ELSE LET packet == Head(s.packets)
             s1 == [s EXCEPT !.packets = Tail(@)]
         IN  IF packet.client \notin DOMAIN s.user_connections
             THEN [ok |-> FALSE, server |-> s1]
             ELSE LET r == Connection_recv_packet(
                              s.user_connections[packet.client], packet)
                  IN  IF r.ok
                      THEN Server_recv_packets(
                              [s1 EXCEPT !.user_connections[packet.client] =
                                            r.connection])
                      ELSE [ok |-> FALSE, server |-> s1]

(***************************************************************************)
(* Initial state: OrderedReliableReceiver::new (ordered_reliable.rs:26-32) *)
(* and SequencedUnreliableReceiver::new (sequenced_unreliable.rs:22-28).   *)
(***************************************************************************)
Init ==
    /\ pending_recv_message_id = 0
    /\ recv_message_buffer = EmptyMap
    /\ fragment_receiver = EmptyMap
    /\ ord_last = Call("new", None, TRUE, None)
    /\ ord_returned = << >>
    /\ ord_num_returned = 0
    /\ ord_runs = << >>
    /\ ord_inserted = [n \in MsgNums \cup LiveMsgNums |-> 0]
    /\ ord_arrived = {}
    /\ ord_late = FALSE
    /\ sent = 0
    /\ seq_recv_message_buffer = << >>
    /\ most_recent_message_id = 0
    /\ seq_fragment_receiver = EmptyMap
    /\ seq_last = Call("new", None, TRUE, None)
    /\ seq_returned = << >>
    /\ seq_accepted = 0
    /\ seq_advance = 0
    /\ seq_stamps = << >>
    /\ seq_inserted = [n \in SeqMsgNums |-> 0]
    /\ seq_arrived = {}
    /\ world = NewWorld
    /\ frame_systems = << >>
    /\ session_log = [open |-> FALSE, earlier |-> {}, unmatched |-> {}]
    /\ server = NewServer
    /\ srv_last = Call("new", None, TRUE, None)
    /\ srv_used = {}
    /\ pc = "build"
    /\ todo = {}
    /\ cli_last = [system |-> "new", input |-> None]
    /\ frame_entered = << >>
    /\ sessions = << >>
    /\ disconnect_requested = FALSE
    /\ send_failed = FALSE

(***************************************************************************)
(* The ordered reliable receiver under an arbitrary network.               *)
(***************************************************************************)
OrdBufferRecv ==
    /\ \E message \in OrdArrivals : Ordered_buffer_recv(message)
    /\ UNCHANGED <<sent, seqVars, seqObs, clientVars, serverVars>>

OrdReadMessage ==
    /\ Ordered_read_message
    /\ UNCHANGED <<sent, seqVars, seqObs, clientVars, serverVars>>

OrdInOrderRun ==
    /\ InOrderRun
    /\ UNCHANGED <<sent, seqVars, seqObs, clientVars, serverVars>>

NextOrdered == OrdBufferRecv \/ OrdReadMessage \/ OrdInOrderRun

SpecOrdered == Init /\ [][NextOrdered]_vars

(***************************************************************************)
(* The sequenced unreliable receiver under an arbitrary network.           *)
(***************************************************************************)
SeqBufferRecv ==
    /\ seq_accepted < MaxAccepted
    /\ \E message \in SeqArrivals : Sequenced_buffer_recv(message)
    /\ UNCHANGED <<ordVars, ordObs, sent, clientVars, serverVars>>

SeqReadMessage ==
    /\ Sequenced_read_message
    /\ UNCHANGED <<ordVars, ordObs, sent, clientVars, serverVars>>

NextSequenced == SeqBufferRecv \/ SeqReadMessage

SpecSequenced == Init /\ [][NextSequenced]_vars

(***************************************************************************)
(* The sequenced unreliable receiver and a fragmented message: the         *)
(* fragments of message 1 and the Single of message 2 arrive in any order, *)
(* each up to twice.                                                       *)
(***************************************************************************)
SeqFragmentArrivals == SenderMessages(1) \cup SenderMessages(2)

\* enough arrivals for every fragment to be accepted twice
MaxFragmentsAccepted == 2 * FragmentCount

SeqFragmentBufferRecv ==
    /\ seq_accepted < MaxFragmentsAccepted
    /\ \E message \in SeqFragmentArrivals : Sequenced_buffer_recv(message)
    /\ UNCHANGED <<ordVars, ordObs, sent, clientVars, serverVars>>

NextSeqFragments == SeqFragmentBufferRecv \/ SeqReadMessage

SpecSeqFragments == Init /\ [][NextSeqFragments]_vars

(***************************************************************************)
(* One receiver of each kind, fed the same arrivals: what the network      *)
(* hands over is given to buffer_recv of both; each is read on its own.    *)
(***************************************************************************)
BothArrivals == OrdArrivals \cap SeqArrivals

BothBufferRecv ==
    /\ seq_accepted < MaxAccepted
    /\ \E message \in BothArrivals :
          Ordered_buffer_recv(message) /\ Sequenced_buffer_recv(message)
    /\ UNCHANGED <<sent, clientVars, serverVars>>

NextBoth == BothBufferRecv \/ OrdReadMessage \/ SeqReadMessage

SpecBoth == Init /\ [][NextBoth]_vars

(***************************************************************************)
(* The reliable ordered channel end to end: the sender assigns ids         *)
(* sequentially from 0 and retransmits every message until it is           *)
(* delivered; the network drops, reorders, delays and duplicates; the      *)
(* receiving host calls read_message every frame.                          *)
(*                                                                         *)
(* The messages of LiveMsgNums are followed one by one.  The messages      *)
(* between them are sent, delivered in order and read RunLen at a time     *)
(* (LiveInOrderRun), so the sender is never more than MaxSent messages     *)
(* ahead of the receiver (it caps its unacknowledged messages).            *)
(***************************************************************************)
LiveSend ==
    /\ sent \in LiveMsgNums
    /\ sent' = sent + 1
    /\ UNCHANGED <<ordVars, ordObs, seqVars, seqObs, clientVars, serverVars>>

\* a copy of a message the sender has sent reaches the receiver
LivePresent(message) ==
    /\ MsgOf(message) < sent
    /\ Ordered_buffer_recv(message)
    /\ UNCHANGED <<sent, seqVars, seqObs, clientVars, serverVars>>

\* the same, for a message that read_message has not returned yet
LiveRetransmit(message) ==
    /\ \A i \in DOMAIN ord_returned : MsgOf(ord_returned[i].data) # MsgOf(message)
    /\ LivePresent(message)

LiveArrival == \E n \in LiveMsgNums : \E message \in SenderMessages(n) : LivePresent(message)

LiveReadMessage ==
    /\ Ordered_read_message
    /\ UNCHANGED <<sent, seqVars, seqObs, clientVars, serverVars>>

\* the sender's next RunLen messages are sent, and each of them arrives and is
\* read before the next one
LiveInOrderRun ==
    /\ sent = ord_num_returned
    /\ sent >= MaxSent /\ sent < LiveLastMsg
    /\ sent' = sent + RunLen
    /\ InOrderRun
    /\ UNCHANGED <<seqVars, seqObs, clientVars, serverVars>>

NextLive == LiveSend \/ LiveArrival \/ LiveReadMessage \/ LiveInOrderRun

SpecLive ==
    /\ Init
    /\ [][NextLive]_vars
    /\ WF_vars(LiveReadMessage)
    /\ WF_vars(LiveInOrderRun)
    /\ \A n \in LiveMsgNums : \A i \in 0 .. NumFragmentsOf(n) - 1 :
          WF_vars(\E message \in SenderMessages(n) :
                     message.bytes[1][2] = i /\ LiveRetransmit(message))

(***************************************************************************)
(* The client app, frame after frame.                                      *)
(***************************************************************************)
\* the packets the transport has for one receive pass: a well-formed packet
\* and a malformed one
GoodPacket == [ok |-> TRUE, id |-> "packet"]
BadPacket == [ok |-> FALSE, id |-> "malformed"]
PacketBatches == {<< >>, <<GoodPacket>>, <<BadPacket>>, <<BadPacket, GoodPacket>>}

NetworkingSystems == {"listen_io_state", "receive", "sync_update", "send"}

\* EventReader<ConnectEvent>, EventReader<DisconnectEvent>: whether the last
\* ConnectEvent read is not followed by a DisconnectEvent, after the events
\* are read in the order they were sent (networking.rs:343, 387)
RECURSIVE OpenAfter(_, _)
OpenAfter(open, events) ==
    IF events = << >> THEN open
    ELSE OpenAfter(CASE Head(events).type = "ConnectEvent" -> TRUE
                     [] Head(events).type = "DisconnectEvent" -> FALSE
                     [] OTHER -> open,
                   Tail(events))

\* the server's readers of its ConnectEvent and DisconnectEvent: the client
\* entities connected and not disconnected, after the events are read in the
\* order they were sent (networking.rs:357, 398)
RECURSIVE UnmatchedAfter(_, _)
UnmatchedAfter(unmatched, events) ==
    IF events = << >> THEN unmatched
    ELSE UnmatchedAfter(
            CASE Head(events).type = "server::ConnectEvent" ->
                    unmatched \cup {Head(events).entity}
              [] Head(events).type = "server::DisconnectEvent" ->
                    unmatched \ {Head(events).entity}
              [] OTHER -> unmatched,
            Tail(events))

\* the resources as a system finds them: the calls it makes are recorded anew
Fresh(w) == [w EXCEPT !.calls = << >>, !.despawned = {}]

ClientStep(next_pc, w, system, input) ==
    /\ pc' = IF w.panicked THEN "panicked" ELSE next_pc
    /\ world' = w
    /\ cli_last' = [system |-> system, input |-> input]
    /\ frame_systems' = (IF pc = "listen_io_state" THEN << >> ELSE frame_systems)
                           \o (IF system \in NetworkingSystems THEN <<system>>
                               ELSE << >>)
    /\ UNCHANGED <<recvVars, serverVars>>

\* ClientNetworkingPlugin::build (networking.rs:39-133), with the
\* ClientConfig the app was given
ClientBuild ==
    /\ pc = "build"
    /\ \E config \in ClientConfigs :
          ClientStep("startup",
                     rebuild_client_connection(
                         Fresh([world EXCEPT !.client_config = config])),
                     "build", config)
    /\ UNCHANGED <<todo, frame_entered, sessions, session_log, disconnect_requested, send_failed>>

\* the Startup schedule: the application may ask for a connection at once
ClientStartup ==
    /\ pc = "startup"
    /\ \E command \in {"none", "connect_client"} :
          ClientStep("listen_io_state",
                     IF command = "connect_client"
                     THEN connect_client(Fresh(world)) ELSE Fresh(world),
                     "startup", command)
    /\ UNCHANGED <<todo, frame_entered, sessions, session_log, disconnect_requested, send_failed>>

\* PreUpdate: listen_io_state, ordered before the Receive set
\* (networking.rs:83-92); the events of the last frame are gone
ClientListenIoState ==
    /\ pc = "listen_io_state"
    /\ LET w == [Fresh(world) EXCEPT !.events = << >>] IN
       IF RunNetworking(w)
       THEN \E event \in IoEvents :
               ClientStep("receive_set", listen_io_state(w, event),
                          "listen_io_state", event)
       ELSE ClientStep("receive_set", w, "skipped", "listen_io_state")
    /\ frame_entered' = << >>
    /\ UNCHANGED <<todo, sessions, session_log, disconnect_requested, send_failed>>

\* PreUpdate: the run condition of the Receive set (networking.rs:48-58)
ClientReceiveSetRunIf ==
    /\ pc = "receive_set"
    /\ IF RunNetworking(world)
       THEN /\ todo' = {"listen_io_state", "receive"}
            /\ ClientStep("receive_systems", Fresh(world), "run_if", TRUE)
       ELSE /\ todo' = {}
            /\ ClientStep("state_transition", Fresh(world), "run_if", FALSE)
    /\ UNCHANGED <<frame_entered, sessions, session_log, disconnect_requested, send_failed>>

AfterReceiveSystem(system) ==
    IF todo \ {system} = {} THEN "state_transition" ELSE "receive_systems"

\* PreUpdate, Receive set: listen_io_state (networking.rs:93-96)
ClientReceiveSetListenIoState ==
    /\ pc = "receive_systems" /\ "listen_io_state" \in todo
    /\ todo' = todo \ {"listen_io_state"}
    /\ \E event \in IoEvents :
          ClientStep(AfterReceiveSystem("listen_io_state"),
                     listen_io_state(Fresh(world), event),
                     "listen_io_state", event)
    /\ UNCHANGED <<frame_entered, sessions, session_log, disconnect_requested, send_failed>>

\* PreUpdate, Receive set: receive (networking.rs:93-96)
ClientReceive ==
    /\ pc = "receive_systems" /\ "receive" \in todo
    /\ todo' = todo \ {"receive"}
    /\ \E reported \in TransportReports(Unwrap(world.netclient)) :
       \E spawned \in {{}} \cup {{kind} : kind \in EntityKinds} :
       \E packets \in PacketBatches :
          /\ LET w == receive(Fresh(world), reported, spawned, packets)
             IN  \* entities are spawned from the packets that were buffered
                 /\ spawned # {}
                    => /\ ~w.panicked
                       /\ WellFormed(NetClientRecv(Unwrap(w.netclient), packets)) # {}
                 /\ ClientStep(AfterReceiveSystem("receive"), w, "receive",
                               [reported |-> reported, spawned |-> spawned,
                                packets |-> NetClientRecv(Unwrap(w.netclient),
                                                          packets)])
                 \* nothing is pending any more once the app has stopped
                 /\ disconnect_requested' = (disconnect_requested /\ ~w.panicked)
                 /\ send_failed' = (send_failed /\ ~w.panicked)
    /\ UNCHANGED <<frame_entered, sessions, session_log>>

\* StateTransition: apply_state_transition::<NetworkingState> and the OnEnter
\* systems (networking.rs:114-132)
ClientStateTransition ==
    /\ pc = "state_transition"
    /\ \E outcome \in {"Err", "Connecting", "Connected"} :
          ClientStep("update", apply_state_transition(Fresh(world), outcome),
                     "apply_state_transition", outcome)
    /\ frame_entered' = (IF world.started THEN << >> ELSE <<world.state>>)
                   \o (IF world'.state # world.state THEN <<world'.state>> ELSE << >>)
    /\ sessions' = IF world'.state # world.state /\ world'.state = "Connected"
                   THEN Append(sessions, Unwrap(world'.connection).build)
                   ELSE sessions
    /\ session_log' =
          [open |-> OpenAfter(session_log.open, world'.events),
           earlier |-> IF world'.builds # world.builds
                       THEN world'.entities \cap ReceivedKinds
                       ELSE session_log.earlier \cap world'.entities,
           unmatched |-> UnmatchedAfter(session_log.unmatched, world'.events)]
    /\ disconnect_requested' =
          (disconnect_requested /\ world'.state # "Disconnected")
    /\ send_failed' = (send_failed /\ world'.state # "Disconnected")
    /\ UNCHANGED todo

\* Update: the application's systems; their commands are applied before
\* PostUpdate (networking.rs:528-540)
ClientUpdate ==
    /\ pc = "update"
    /\ \E command \in {"none", "connect_client", "disconnect_client"} :
          /\ command = "connect_client" => world.builds <= MaxConnects
          /\ ClientStep("sync_update",
                        CASE command = "connect_client" -> connect_client(Fresh(world))
                          [] command = "disconnect_client" ->
                                disconnect_client(Fresh(world))
                          [] OTHER -> Fresh(world),
                        "update", command)
          /\ disconnect_requested' =
                CASE command = "connect_client" -> FALSE
                  [] command = "disconnect_client" ->
                        (disconnect_requested \/ world.state # "Disconnected")
                  [] OTHER -> disconnect_requested
    /\ UNCHANGED <<todo, frame_entered, sessions, session_log, send_failed>>

\* PostUpdate: sync_update in SyncSet (networking.rs:59-73, 97-104)
ClientSyncUpdate ==
    /\ pc = "sync_update"
    /\ IF RunNetworking(world)
       THEN \E synced \in BOOLEAN :
               ClientStep("send", sync_update(Fresh(world), synced),
                          "sync_update", synced)
       ELSE ClientStep("send", Fresh(world), "skipped", "sync_update")
    /\ UNCHANGED <<todo, frame_entered, sessions, session_log, disconnect_requested, send_failed>>

\* what NetClient::send returns for the packets of one send_packets
SendResults == {<< >>, <<"Ok">>, <<"Err">>, <<"Ok", "Err">>}

\* PostUpdate: send in the Send set, when is_client_ready_to_send
\* (networking.rs:59-81, 97-104)
ClientSend ==
    /\ pc = "send"
    /\ \/ /\ RunNetworking(world)
          /\ \E results \in SendResults :
                /\ ClientStep("listen_io_state", send(Fresh(world), results),
                              "send", results)
                /\ send_failed' =
                      (send_failed \/ \E i \in DOMAIN results : results[i] = "Err")
       \/ /\ ClientStep("listen_io_state", Fresh(world), "skipped", "send")
          /\ UNCHANGED send_failed
    /\ UNCHANGED <<todo, frame_entered, sessions, session_log, disconnect_requested>>

NextClient ==
    \/ ClientBuild \/ ClientStartup
    \/ ClientListenIoState \/ ClientReceiveSetRunIf
    \/ ClientReceiveSetListenIoState \/ ClientReceive
    \/ ClientStateTransition \/ ClientUpdate
    \/ ClientSyncUpdate \/ ClientSend

SpecClient == Init /\ [][NextClient]_vars

\* the app runs frame after frame
SpecClientLive == SpecClient /\ WF_vars(NextClient)

(***************************************************************************)
(* The server, call after call.                                            *)
(***************************************************************************)
ServerStep(r, op, arg, out) ==
    /\ server' = r.server
    /\ srv_last' = Call(op, arg, r.ok, out)
    /\ srv_used' = srv_used \cup {idx \in DOMAIN r.server.user_connections :
                                     r.server.user_connections[idx] # NewConnection}
    /\ UNCHANGED <<recvVars, clientVars>>

ServerUpdate ==
    /\ ~server.panicked
    /\ \E cbs \in CallbackSeqs, result \in {"Ok", "Err"}, keeps_addr \in BOOLEAN :
          /\ CallbacksPossible(server.netcode, cbs)
          /\ Len(server.connections) + Len(server.disconnections) + Len(cbs)
                <= MaxQueued
          /\ ServerStep(Server_update(server, cbs, result, keeps_addr),
                        "update", None,
                        ConnectsProcessed(server, cbs,
                                          Server_update(server, cbs, result,
                                                        keeps_addr)))

\* a payload packet of a connected client reaches the netcode server
ServerPacketArrives ==
    /\ ~server.panicked
    /\ Len(server.packets) < MaxServerPackets
    /\ \E packet \in ServerPackets :
          /\ packet.client \in server.netcode
          /\ packet.client \in DOMAIN server.user_connections
             => server.user_connections[packet.client].received < MaxServerPackets
          /\ ServerStep([ok |-> TRUE, server |-> netcode_read(server, packet)],
                        "packet", None, None)

ServerBufferSend ==
    /\ ~server.panicked
    /\ \E client_id \in ClientIndices :
          /\ client_id \in DOMAIN server.user_connections
             => Len(server.user_connections[client_id].outbox) < MaxOutbox
          /\ ServerStep(Server_buffer_send(server, client_id, "message"),
                        "buffer_send", Some(client_id), None)

ServerSendPackets ==
    /\ ~server.panicked
    /\ ServerStep([ok |-> TRUE, server |-> Server_send_packets(server)],
                  "send_packets", None, None)

ServerRecvPackets ==
    /\ ~server.panicked
    /\ ServerStep(Server_recv_packets(server), "recv_packets", None, None)

\* connections and sending
NextServer == ServerUpdate \/ ServerBufferSend \/ ServerSendPackets

SpecServer == Init /\ [][NextServer]_vars

\* connections and receiving
NextServerRecv == ServerUpdate \/ ServerPacketArrives \/ ServerRecvPackets

SpecServerRecv == Init /\ [][NextServerRecv]_vars

(***************************************************************************)
(* Properties of the ordered reliable receiver (checked under SpecOrdered) *)
(***************************************************************************)
ReturnedId(i) == Unwrap(ord_returned[i].data.id)
ReturnedPos(i) == ord_returned[i].pos
ReturnedMsg(i) == MsgOf(ord_returned[i].data)

\* the message handed to the last buffer_recv
LastArg == Unwrap(ord_last.arg)

\* how often read_message has returned the sender's message n: the reads the
\* behaviour shows one by one, and the InOrderRun steps that passed it
TimesReturned(n) ==
    Cardinality({i \in DOMAIN ord_returned : ReturnedMsg(i) = n})
    + Cardinality({j \in DOMAIN ord_runs :
                     ord_runs[j].first <= n /\ n < ord_runs[j].first + ord_runs[j].len})

\* C1: the n-th message returned by read_message has MessageId n mod 2^16, and
\* pending_recv_message_id is the number of messages returned so far mod 2^16.
C1_ConsecutiveIds ==
    /\ \A i \in DOMAIN ord_returned : ReturnedId(i) = WrapId(ReturnedPos(i))
    /\ pending_recv_message_id = WrapId(ord_num_returned)

\* reads on both sides of the wrap of the id space, after a reordered arrival
C1_Witness ==
    /\ \E i \in DOMAIN ord_returned : ReturnedPos(i) = 0
    /\ \E i \in DOMAIN ord_returned : ReturnedPos(i) >= IdModulus
    /\ ord_last.op = "read_message" /\ ord_last.out # None

\* C2 as stated: every two returned messages, however far apart, are in
\* increasing modular order.
C2_AllPairsIncreasing ==
    \A i, j \in DOMAIN ord_returned :
        i < j => Less(ReturnedId(i), ReturnedId(j))

\* C2 amended: two returned messages at most 2^15 deliveries apart are in
\* increasing modular order.
C2_PairsWithinHalfRange ==
    \A i, j \in DOMAIN ord_returned :
        (i < j /\ ReturnedPos(j) - ReturnedPos(i) <= HalfRange)
            => Less(ReturnedId(i), ReturnedId(j))

\* two messages returned one after the other across the wrap 65535 -> 0
C2_Witness ==
    \E i, j \in DOMAIN ord_returned :
        /\ i < j /\ ReturnedPos(j) - ReturnedPos(i) <= HalfRange
        /\ ReturnedId(i) = IdModulus - 1 /\ ReturnedId(j) = 0

\* C3: buffer_recv of a message whose id is modular-less-than
\* pending_recv_message_id returns Ok and changes nothing of the receiver.
C3_StaleLeavesReceiverUnchanged ==
    [][(/\ ord_last'.op = "buffer_recv"
        /\ MessageIdOf(Unwrap(ord_last'.arg)) # None
        /\ Less(Unwrap(MessageIdOf(Unwrap(ord_last'.arg))), pending_recv_message_id))
       => (ord_last'.ok /\ UNCHANGED ordVars)]_vars

\* id 60000 arrived at a fresh receiver that already holds a later message
C3_Witness ==
    /\ ord_last.op = "buffer_recv"
    /\ MessageIdOf(LastArg) = Some(60000)
    /\ pending_recv_message_id = 0
    /\ DOMAIN recv_message_buffer = {1}

\* C4: while the awaited id is not buffered read_message returns None and
\* changes neither buffer nor pending id; when it is buffered read_message
\* returns it, removes it and waits for the next id.
C4_HoldsBackUntilPending ==
    [][ord_last'.op = "read_message" =>
        IF pending_recv_message_id \in DOMAIN recv_message_buffer
        THEN /\ ord_last'.out = Some(recv_message_buffer[pending_recv_message_id])
             /\ pending_recv_message_id' = WrapId(pending_recv_message_id + 1)
             /\ recv_message_buffer' =
                    MapRemove(recv_message_buffer, pending_recv_message_id)
        ELSE /\ ord_last'.out = None
             /\ UNCHANGED ordVars]_vars

\* read_message returned None while two later ids wait in the buffer
C4_Witness ==
    /\ ord_last.op = "read_message" /\ ord_last.out = None
    /\ pending_recv_message_id = 0
    /\ DOMAIN recv_message_buffer = {1, 2}

\* C5 as stated: no message is returned by read_message more than once, however
\* late its copies arrive.
C5_AtMostOnce == \A n \in MsgNums : TimesReturned(n) <= 1

\* C5 amended: no message is returned more than once as long as every copy
\* arrives within the window in which the 16-bit id identifies it.
C5_AtMostOnceInWindow == ~ord_late => C5_AtMostOnce

\* a copy of message 0 arrived after message 0 had been returned
C5_Witness ==
    /\ ~ord_late
    /\ ord_last.op = "buffer_recv" /\ MessageIdOf(LastArg) # None
    /\ MsgOf(LastArg) = 0
    /\ TimesReturned(0) = 1

\* C10: what the claim says of each fragmented message n of the catalogue
FragmentedMsgs == {n \in MsgNums : NumFragmentsOf(n) > 1}

AllFragmentsArrived(n) ==
    \A i \in 0 .. NumFragmentsOf(n) - 1 : <<n, i>> \in ord_arrived

WholePayload(n) == [i \in 1 .. NumFragmentsOf(n) |-> <<n, i - 1>>]

OneReassembledSingle(n) ==
    /\ ord_inserted[n] <= 1
    /\ ord_inserted[n] >= 1 => AllFragmentsArrived(n)
    /\ \A id \in DOMAIN recv_message_buffer :
           MsgOf(recv_message_buffer[id]) = n =>
               /\ id = WrapId(n)
               /\ recv_message_buffer[id].bytes = WholePayload(n)
    /\ TimesReturned(n) <= 1

\* C10 as stated: whatever the order and the number of copies of the fragments,
\* one entry at most is ever stored for the message, none before all fragments
\* have arrived, and read_message returns it once at most.
C10_OneSinglePerFragmentedMessage ==
    \A n \in FragmentedMsgs : OneReassembledSingle(n)

\* C10 amended: the same, as long as every copy arrives within the window in
\* which the 16-bit id identifies the message.
C10_OneSinglePerFragmentedMessageInWindow ==
    ~ord_late => C10_OneSinglePerFragmentedMessage

\* the reassembled message was read, and a duplicate fragment arrived afterwards
C10_Witness ==
    /\ ~ord_late
    /\ \E n \in FragmentedMsgs :
          /\ TimesReturned(n) = 1 /\ ord_inserted[n] = 1
          /\ \E i \in DOMAIN ord_returned :
                ReturnedMsg(i) = n /\ ord_returned[i].data.bytes = WholePayload(n)
          /\ ord_last.op = "buffer_recv" /\ LastArg.kind = "Fragment"
          /\ MsgOf(LastArg) = n

(***************************************************************************)
(* Properties of the sequenced unreliable receiver (checked under          *)
(* SpecSequenced)                                                          *)
(***************************************************************************)
SeqReturnedId(i) == Unwrap(seq_returned[i].data.id)
SeqLastArg == Unwrap(seq_last.arg)

\* C7: the ids of successive messages returned by read_message are strictly
\* increasing under modular comparison, duplicated arrivals included.
C7_SuccessiveStrictlyIncreasing ==
    \A i \in DOMAIN seq_returned :
        i > 1 => Less(SeqReturnedId(i - 1), SeqReturnedId(i))

\* C8: buffer_recv drops a message older than most_recent_message_id and
\* changes nothing; any other message makes its id the most recent one, and a
\* Single is appended to the buffer; read_message returns the front of the
\* buffer as soon as there is one.
C8_DropOldFifo ==
    [][/\ (seq_last'.op = "buffer_recv" /\ MessageIdOf(Unwrap(seq_last'.arg)) # None) =>
            LET message == Unwrap(seq_last'.arg)
                message_id == Unwrap(MessageIdOf(message))
            IN  IF Less(message_id, most_recent_message_id)
                THEN UNCHANGED seqVars
                ELSE /\ most_recent_message_id' = message_id
                     /\ message.kind = "Single" =>
                            seq_recv_message_buffer' =
                                Append(seq_recv_message_buffer,
                                       SingleData(message.id, message.bytes))
       /\ seq_last'.op = "read_message" =>
            /\ UNCHANGED <<most_recent_message_id, seq_fragment_receiver>>
            /\ IF seq_recv_message_buffer = << >>
               THEN seq_last'.out = None /\ UNCHANGED seq_recv_message_buffer
               ELSE /\ seq_last'.out = Some(Head(seq_recv_message_buffer))
                    /\ seq_recv_message_buffer' = Tail(seq_recv_message_buffer)
      ]_vars

\* id 0 arrived after id 2 had been accepted and read, and was dropped, while
\* a message accepted after id 2 is still waiting behind nothing
C8_Witness ==
    /\ seq_last.op = "buffer_recv"
    /\ MessageIdOf(SeqLastArg) = Some(0)
    /\ most_recent_message_id = 20000
    /\ Len(seq_returned) = 1 /\ SeqReturnedId(1) = 2
    /\ Len(seq_recv_message_buffer) = 1

\* C9 as stated: no returned message is older than any message returned
\* before it.
C9_NeverOlderThanAnyEarlier ==
    \A i, j \in DOMAIN seq_returned :
        i < j => ~Less(SeqReturnedId(j), SeqReturnedId(i))

\* C9 amended: no returned message is older than a message returned before it,
\* as long as most_recent_message_id moved forward by fewer than 2^15 ids in
\* total between the arrivals of the two.
C9_NeverOlderWithinHalfRange ==
    \A i, j \in DOMAIN seq_returned :
        (i < j /\ seq_returned[j].adv - seq_returned[i].adv < HalfRange)
            => ~Less(SeqReturnedId(j), SeqReturnedId(i))

\* three messages returned, the first and the last not consecutive and
\* within the half range
C9_Witness ==
    /\ Len(seq_returned) >= 3
    /\ seq_returned[3].adv - seq_returned[1].adv < HalfRange
    /\ SeqReturnedId(1) # SeqReturnedId(2) /\ SeqReturnedId(2) # SeqReturnedId(3)

(***************************************************************************)
(* Liveness of the reliable ordered channel (checked under SpecLive)       *)
(***************************************************************************)
\* C6 as stated: every message the sender has sent is eventually returned by
\* read_message.
C6_EverySentMessageReturned ==
    \A n \in LiveMsgNums : (sent > n) ~> (TimesReturned(n) >= 1)

\* C6 amended: every message the sender has sent is eventually returned by
\* read_message, unless a copy of some message reaches the receiver outside
\* the window in which the 16-bit id identifies it.
C6_EverySentMessageReturnedInWindow ==
    \A n \in LiveMsgNums : (sent > n) ~> (TimesReturned(n) >= 1 \/ ord_late)

\* every message was sent and returned once, across the wrap of the id space,
\* and a copy of a returned message arrived afterwards
C6_Witness ==
    /\ ~ord_late
    /\ sent = LiveLastMsg + 1
    /\ \A n \in LiveMsgNums : TimesReturned(n) = 1
    /\ ord_last.op = "buffer_recv"

(***************************************************************************)
(* Fragmented messages on the sequenced receiver (checked under            *)
(* SpecSeqFragments)                                                       *)
(***************************************************************************)
SeqFragmentedMsgs == {n \in SeqMsgNums : NumFragmentsOf(n) > 1}

SeqAllFragmentsArrived(n) ==
    \A i \in 0 .. NumFragmentsOf(n) - 1 : <<n, i>> \in seq_arrived

\* C11: for every fragmented message, once all its fragments have been handed
\* to buffer_recv exactly one reassembled Single has been pushed to the buffer
\* for it, and as long as a fragment is missing none has.
C11_OneSinglePerSequencedFragmentedMessage ==
    \A n \in SeqFragmentedMsgs :
        IF SeqAllFragmentsArrived(n)
        THEN seq_inserted[n] = 1
        ELSE seq_inserted[n] = 0

(***************************************************************************)
(* Messages without an id (checked under SpecBoth)                         *)
(***************************************************************************)
\* C12: buffer_recv of a message that carries no MessageId returns an error on
\* the ordered reliable and on the sequenced unreliable receiver, and changes
\* neither buffer, fragment receiver, pending_recv_message_id nor
\* most_recent_message_id.
C12_NoIdIsAnErrorOnBothReceivers ==
    [][/\ (ord_last'.op = "buffer_recv" /\ Unwrap(ord_last'.arg).id = None)
            => (~ord_last'.ok /\ UNCHANGED ordVars)
       /\ (seq_last'.op = "buffer_recv" /\ Unwrap(seq_last'.arg).id = None)
            => (~seq_last'.ok /\ UNCHANGED seqVars)
       /\ (ord_last'.op = "buffer_recv" /\ Unwrap(ord_last'.arg).id # None)
            => ord_last'.ok
       /\ (seq_last'.op = "buffer_recv" /\ Unwrap(seq_last'.arg).id # None)
            => seq_last'.ok
      ]_vars

\* a message without id was refused by both receivers while each of them held
\* a buffered message and a partly received fragmented one, and had moved on
\* from its initial id
C12_Witness ==
    /\ ord_last.op = "buffer_recv" /\ LastArg.id = None /\ ~ord_last.ok
    /\ seq_last.op = "buffer_recv" /\ SeqLastArg.id = None /\ ~seq_last.ok
    /\ pending_recv_message_id = 1
    /\ DOMAIN recv_message_buffer = {2}
    /\ DOMAIN fragment_receiver = {1}
    /\ most_recent_message_id = 2
    /\ Len(seq_recv_message_buffer) = 1
    /\ DOMAIN seq_fragment_receiver = {1}

(***************************************************************************)
(* The receive window of the reliable channels (checked under SpecOrdered) *)
(***************************************************************************)
\* number of ids ahead of the awaited one a reliable receiver takes
ReliableWindow == 1024

\* how far id is ahead of the awaited id
AheadOfPending(id) == WrapId(id - pending_recv_message_id)

\* C13: a message whose id is more than ReliableWindow ahead of
\* pending_recv_message_id makes buffer_recv return an error, and the buffer
\* never holds an id further than ReliableWindow ahead of
\* pending_recv_message_id.
C13_OutsideWindowIsProtocolError ==
    /\ \A id \in DOMAIN recv_message_buffer : AheadOfPending(id) <= ReliableWindow
    /\ (ord_last.op = "buffer_recv" /\ LastArg.id # None
          /\ AheadOfPending(Unwrap(LastArg.id)) > ReliableWindow
          /\ ~Less(Unwrap(LastArg.id), pending_recv_message_id))
        => ~ord_last.ok

(***************************************************************************)
(* Properties of the client app (checked under SpecClient)                 *)
(***************************************************************************)
\* the edges of the connection state machine
StateEdges ==
    {<<"Disconnected", "Connecting">>, <<"Connecting", "Connected">>,
     <<"Connected", "Disconnected">>, <<"Connecting", "Disconnected">>}

\* C14: NetworkingState changes only along Disconnected -> Connecting,
\* Connecting -> Connected, Connected -> Disconnected and
\* Connecting -> Disconnected.
C14_OnlyStateMachineEdges ==
    [][world'.state # world.state => <<world.state, world'.state>> \in StateEdges]_vars

\* the step enters the given NetworkingState
Enters(entered) == world'.state = entered /\ world.state # entered

\* C15: every entry into Connecting builds a new ConnectionManager and a new
\* ClientConnection from the current ClientConfig and only then calls
\* connect; every entry into Connected finds the ConnectionManager of the
\* latest entry into Connecting, and no ConnectionManager serves two sessions.
C15_FreshConnectionPerSession ==
    /\ [][/\ Enters("Connecting") =>
               /\ world'.builds = world.builds + 1
               /\ Unwrap(world'.connection) = NewConnectionManager(world'.builds)
               /\ Unwrap(world'.netclient).build = world'.builds
               /\ Unwrap(world'.netclient).kind = world'.client_config.net
               /\ \E i \in DOMAIN world'.calls :
                     /\ i < Len(world'.calls)
                     /\ world'.calls[i] = "rebuild_client_connection"
                     /\ world'.calls[i + 1] = "connect"
          /\ Enters("Connected") =>
               Unwrap(world'.connection).build = world'.builds
         ]_vars
    /\ [](\A i, j \in DOMAIN sessions : i < j => sessions[i] < sessions[j])

\* the client is connected for the second time, after a disconnection
C15_Witness ==
    /\ world.state = "Connected"
    /\ Len(sessions) = 2
    /\ cli_last.system = "apply_state_transition"
    /\ world.client_config.net = "Netcode"

\* the events of the given type emitted in this frame
EventsOfType(type) == {i \in DOMAIN world.events : world.events[i].type = type}

\* how often this frame's StateTransition entered the given state
TimesEntered(entered) ==
    Cardinality({i \in DOMAIN frame_entered : frame_entered[i] = entered})

\* C16: when receive finds the client connection Connected while
\* NetworkingState is not Connected it requests Connected; a frame holds
\* one ConnectEvent, with the id of the client connection, if it entered
\* Connected, and none otherwise.
C16_ConnectEventPerEntry ==
    /\ [][(/\ cli_last'.system = "receive" /\ pc = "receive_systems"
           /\ NetClientState(Unwrap(world'.netclient)) = "Connected"
           /\ world.state # "Connected")
          => world'.next_state = Some("Connected")]_vars
    /\ [](/\ Cardinality(EventsOfType("ConnectEvent")) = TimesEntered("Connected")
          /\ TimesEntered("Connected") <= 1
          /\ \A i \in EventsOfType("ConnectEvent") :
                world.events[i].client_id = Unwrap(world.netclient).id)

\* the handshake of a netcode client completed in receive, and the frame's
\* StateTransition entered Connected
C16_Witness ==
    /\ cli_last.system = "apply_state_transition"
    /\ world.client_config = [mode |-> "Separate", net |-> "Netcode", id |-> 7]
    /\ world.state = "Connected"
    /\ frame_entered = <<"Connected">>
    /\ world.events = <<[type |-> "ConnectEvent", client_id |-> 7]>>

\* C17: every entry into Disconnected runs on_disconnect: afterwards no entity
\* marked Replicated, Predicted or Interpolated is left, sync_manager.synced is
\* false, disconnect() was called on the client connection, and the frame
\* holds one DisconnectEvent for the entry.
C17_OnDisconnectCleansUp ==
    /\ [][(cli_last'.system = "apply_state_transition" /\ pc = "state_transition"
           /\ \E i \in DOMAIN frame_entered' : frame_entered'[i] = "Disconnected")
          => /\ world'.entities \cap ReceivedKinds = {}
             /\ ~Unwrap(world'.connection).synced
             /\ \E i \in DOMAIN world'.calls : world'.calls[i] = "disconnect"
             /\ (world'.state = "Disconnected" =>
                    NetClientState(Unwrap(world'.netclient)) = "Disconnected")]_vars
    /\ [](Cardinality(EventsOfType("DisconnectEvent")) = TimesEntered("Disconnected"))

\* a session that had received entities of all three kinds ended in
\* Disconnected
C17_Witness ==
    /\ cli_last.system = "apply_state_transition"
    /\ frame_entered = <<"Disconnected">>
    /\ sessions # << >>
    /\ world.despawned = ReceivedKinds
    /\ world.entities = {"Other"}
    /\ world.events = <<[type |-> "DisconnectEvent"]>>

\* what a system can change, but for the io state of the client connection
AllButIo(w) ==
    <<w.state, w.next_state, w.connection, w.entities, w.metadata, w.builds,
      w.client_config, NetClientState(Unwrap(w.netclient))>>

\* C18: on Disconnected(reason) and on a closed event channel listen_io_state
\* requests NetworkingState::Disconnected and calls disconnect() on the client
\* connection; on Connected it only sets io.state to Connected; on an empty
\* channel it changes nothing; it never changes State<NetworkingState>.
C18_ListenIoState ==
    [][cli_last'.system = "listen_io_state" =>
        LET event == cli_last'.input
            c == Unwrap(world.netclient)
            after == Unwrap(world'.netclient)
        IN  /\ world'.state = world.state
            /\ event \in {"Disconnected", "Closed"} =>
                  /\ world'.next_state = Some("Disconnected")
                  /\ world'.calls = <<"disconnect">>
                  /\ NetClientState(after) = "Disconnected"
            /\ event = "Connected" =>
                  /\ AllButIo(world') = AllButIo(world)
                  /\ after.io = "Connected"
            /\ event \in {"Empty", "NoReceiver"} =>
                  /\ AllButIo(world') = AllButIo(world)
                  /\ after.io = c.io
      ]_vars

\* the event channel of a connected client was found closed
C18_Witness ==
    /\ cli_last = [system |-> "listen_io_state", input |-> "Closed"]
    /\ world.state = "Connected"
    /\ world.next_state = Some("Disconnected")
    /\ NetClientState(Unwrap(world.netclient)) = "Disconnected"
    /\ Unwrap(world.netclient).io = "Connected"

(***************************************************************************)
(* Properties of the client app running frame after frame (checked under   *)
(* SpecClientLive)                                                         *)
(***************************************************************************)
\* C19: after disconnect_client was called while Connecting or Connected, the
\* client enters Disconnected, unless connect_client is called afterwards.
C19_DisconnectRequestHonoured == disconnect_requested ~> ~disconnect_requested

\* C20: after NetClient::send returned an error for a packet in the send
\* system, the client enters NetworkingState::Disconnected (where
\* on_disconnect emits the DisconnectEvent).
C20_SendFailureDisconnects == send_failed ~> ~send_failed

(***************************************************************************)
(* The client app with a transport that does not leave a handshake         *)
(* pending for ever: whenever receive keeps polling a connecting client    *)
(* connection, the transport at some point reports Connected or            *)
(* Disconnected (the connection attempt times out).                        *)
(***************************************************************************)
HandshakeEnds ==
    /\ ClientReceive
    /\ NetClientState(Unwrap(world.netclient)) = "Connecting"
    /\ NetClientState(Unwrap(world'.netclient)) # "Connecting"

SpecClientTimely == SpecClient /\ WF_vars(NextClient) /\ SF_vars(HandshakeEnds)

\* C21: from Connecting the client reaches Connected or Disconnected, also
\* when connect() fails or leaves the client connection Disconnected (as
\* long as the app runs).
C21_ConnectingEnds ==
    (world.state = "Connecting")
       ~> (world.state \in {"Connected", "Disconnected"} \/ world.panicked)

\* the step is a run of the receive system
ReceiveRuns == "receive" \in todo /\ "receive" \notin todo'
\* the packets NetClient::recv hands out in that run
ReceivedBatch == cli_last'.input.packets

\* C22: a malformed packet is dropped: the receive pass does not stop, the
\* well-formed packets of the pass are all buffered and nothing else of the
\* connection changes, and the pass ends with connection.receive.
C22_MalformedPacketDropped ==
    [][ReceiveRuns =>
          /\ ~world'.panicked
          /\ Unwrap(world'.connection) =
                [Unwrap(world.connection) EXCEPT
                    !.received = @ \cup WellFormed(ReceivedBatch)]
          /\ world'.calls[Len(world'.calls)] = "connection.receive"]_vars

\* C22, server side (SpecServerRecv): a recv_packets pass whose packets all come from clients
\* with a Connection returns Ok and leaves no packet behind.
C22_ServerPassCompletes ==
    [][(/\ srv_last'.op = "recv_packets"
        /\ serverVars' # serverVars
        /\ \A i \in 1 .. Len(server.packets) :
              server.packets[i].client \in DOMAIN server.user_connections)
       => (srv_last'.ok /\ server'.packets = << >>)]_vars

\* the schedule is at one of the networking systems or at the run condition
\* of their set
AtNetworkingSystem ==
    pc \in {"listen_io_state", "receive_set", "receive_systems", "sync_update", "send"}

\* C23: while NetworkingState is Disconnected, and in every frame of a
\* host-server, listen_io_state, receive, sync_update and send are skipped:
\* nothing is received or sent and the client connection, the connection
\* manager and the requested state stay as they are.
C23_NoNetworkingWhileDisconnected ==
    [][(/\ clientVars' # clientVars
        /\ AtNetworkingSystem
        /\ \/ world.state = "Disconnected"
           \/ is_host_server_condition(world.client_config))
       => /\ cli_last'.system \notin NetworkingSystems
          /\ world'.calls = << >>
          /\ world'.netclient = world.netclient
          /\ world'.connection = world.connection
          /\ world'.next_state = world.next_state]_vars

\* send was skipped in a frame of a client that is Disconnected again after a
\* connection attempt
C23_Witness ==
    /\ world.state = "Disconnected" /\ world.builds > 1
    /\ ~is_host_server_condition(world.client_config)
    /\ cli_last = [system |-> "skipped", input |-> "send"]

\* C24: is_connected is true exactly when a ClientConnection exists and its
\* state() is NetworkingState::Connected, whatever the kind of the client.
C24_IsConnectedIffStateConnected ==
    is_connected(world.netclient)
       <=> (world.netclient # None
            /\ NetClientState(Unwrap(world.netclient)) = "Connected")

HostServerLocal ==
    /\ is_host_server_condition(world.client_config)
    /\ world.netclient # None /\ Unwrap(world.netclient).kind = "Local"

\* C25: the local client of a host-server is never Connecting, and a connect
\* request (NetworkingState::Connecting entered) always ends in Connected.
C25_HostServerConnects ==
    /\ [](HostServerLocal
            => NetClientState(Unwrap(world.netclient)) \in {"Connected", "Disconnected"})
    /\ ((HostServerLocal /\ world.state = "Connecting")
           ~> (world.state = "Connected"))

(***************************************************************************)
(* Properties of the server (checked under SpecServer)                     *)
(***************************************************************************)
\* C26: after every Server::update that returns Ok, the client indices with
\* a Connection in user_connections are exactly those the netcode server
\* holds connected.
C26_ConnectionIffTransportConnected ==
    (srv_last.op = "update" /\ srv_last.ok)
       => DOMAIN server.user_connections = server.netcode

\* C27: Server::buffer_send to a client index without a Connection returns
\* an error and leaves the server as it was; to a client with a Connection it
\* queues the message on that Connection and changes nothing else.
C27_BufferSendOnlyToKnownClient ==
    [][(srv_last'.op = "buffer_send" /\ serverVars' # serverVars)
       => LET client_id == Unwrap(srv_last'.arg)
          IN  IF client_id \notin DOMAIN server.user_connections
              THEN ~srv_last'.ok /\ server' = server
              ELSE /\ srv_last'.ok
                   /\ server' =
                         [server EXCEPT !.user_connections[client_id].outbox =
                                           Append(@, "message")]]_vars

\* buffer_send to a client without a Connection has just failed, while
\* another client has a Connection
C27_Witness ==
    /\ srv_last.op = "buffer_send" /\ ~srv_last.ok
    /\ Unwrap(srv_last.arg) \notin DOMAIN server.user_connections
    /\ DOMAIN server.user_connections # {}

(***************************************************************************)
(* Order of the networking systems within a frame (SpecClient)             *)
(***************************************************************************)
Ran(i, system) == frame_systems[i] = system

C29_BufferedIdsNotStale ==
    \A id \in DOMAIN recv_message_buffer :
       /\ ~Less(id, pending_recv_message_id)
       /\ WrapId(id - pending_recv_message_id) < HalfRange

\* messages have been delivered, pending_recv_message_id has advanced, and
\* the buffer holds an id ahead of it
C29_Witness ==
    /\ ord_num_returned > 0
    /\ pending_recv_message_id # 0
    /\ \E id \in DOMAIN recv_message_buffer : id # pending_recv_message_id

\* C30: buffer_recv of a Single whose id is already a key of
\* recv_message_buffer returns Ok and leaves the buffer as it was, and
\* read_message returns the payload the buffer holds for the awaited id, so
\* the payload stored first for an id is the one that is returned.
C30_BufferedIdNotOverwritten ==
    [][/\ (/\ ord_last'.op = "buffer_recv"
           /\ Unwrap(ord_last'.arg).kind = "Single"
           /\ MessageIdOf(Unwrap(ord_last'.arg)) # None
           /\ Unwrap(MessageIdOf(Unwrap(ord_last'.arg))) \in DOMAIN recv_message_buffer)
          => (ord_last'.ok /\ recv_message_buffer' = recv_message_buffer)
       /\ (/\ ord_last'.op = "read_message"
           /\ ord_last'.out # None)
          => /\ pending_recv_message_id \in DOMAIN recv_message_buffer
             /\ ord_last'.out = Some(recv_message_buffer[pending_recv_message_id])]_vars

\* the sender's message 2^16, whose id is 0 again, has just arrived while the
\* buffer holds message 0 under id 0, and the buffer still holds message 0
C30_Witness ==
    /\ ord_last.op = "buffer_recv"
    /\ LastArg = Single(Some(0), Token(IdModulus, 0))
    /\ 0 \in DOMAIN recv_message_buffer
    /\ MsgOf(recv_message_buffer[0]) = 0

(***************************************************************************)
(* Further properties of the sequenced unreliable receiver (SpecSequenced) *)
(***************************************************************************)
\* C31: no call moves most_recent_message_id backwards under the modular
\* comparison, read_message leaves it alone, a buffer_recv that drops or
\* rejects its message leaves it alone, and a buffer_recv that accepts its
\* message makes it the id of that message.
C31_MostRecentOnlyAdvances ==
    [][/\ \/ most_recent_message_id' = most_recent_message_id
          \/ Less(most_recent_message_id, most_recent_message_id')
       /\ seq_last'.op = "read_message"
          => most_recent_message_id' = most_recent_message_id
       /\ seq_accepted' = seq_accepted
          => most_recent_message_id' = most_recent_message_id
       /\ seq_accepted' # seq_accepted
          => /\ seq_last'.op = "buffer_recv"
             /\ most_recent_message_id' =
                   Unwrap(MessageIdOf(Unwrap(seq_last'.arg)))]_vars

\* the most recent id has gone round the 16-bit range: message 1 was accepted
\* after ids that lie more than 2^15 ahead of 0
C31_Witness ==
    /\ seq_last.op = "buffer_recv"
    /\ MessageIdOf(SeqLastArg) = Some(1)
    /\ most_recent_message_id = 1
    /\ seq_advance > HalfRange

(***************************************************************************)
(* Further properties of the client (SpecClient)                           *)
(***************************************************************************)
\* every ClientConnection the run conditions can be asked about: absent, or
\* any state() with any io
ClientConnections ==
    {None} \cup {Some(c) : c \in [state : NetworkingState, io : IoStates]}

\* C32: is_connected and is_disconnected are never both true, for every
\* state() and io of the ClientConnection and for the ClientConnection the
\* app holds, and is_disconnected is true when the resource is absent.
C32_NeverConnectedAndDisconnected ==
    /\ \A client \in ClientConnections \cup {world.netclient} :
          ~(is_connected(client) /\ is_disconnected(client))
    /\ is_disconnected(None)

\* the app holds a ClientConnection in its handshake, whose io is connected:
\* both run conditions are false
C32_Witness ==
    /\ world.netclient # None
    /\ NetClientState(Unwrap(world.netclient)) = "Connecting"
    /\ Unwrap(world.netclient).io = "Connected"
    /\ ~is_connected(world.netclient) /\ ~is_disconnected(world.netclient)

TimeAdjustments == {"update_prediction_time", "set_relative_speed"}
CallsMade == {world.calls[i] : i \in DOMAIN world.calls}

\* C33: once the on-enter systems of Disconnected have run, and for as long
\* as NetworkingState is Disconnected, sync_manager.synced is false, the
\* ClientConnection's state() is Disconnected and no prediction-time or
\* clock-speed adjustment is made; in any state sync_update makes these
\* adjustments only when the sync manager is synced.
C33_DisconnectedIsNotSynced ==
    /\ (world.state = "Disconnected" /\ world.started)
       => /\ \A m \in world.connection : ~m.synced
          /\ \A c \in world.netclient : NetClientState(c) = "Disconnected"
          /\ CallsMade \cap TimeAdjustments = {}
    /\ CallsMade \cap TimeAdjustments # {}
       => /\ cli_last.system = "sync_update"
          /\ Unwrap(world.connection).synced

\* Disconnected has just been entered at the end of a session in which
\* replicated entities had been received
C33_Witness ==
    /\ world.state = "Disconnected" /\ world.started
    /\ cli_last.system = "apply_state_transition"
    /\ world.despawned # {}
    /\ world.connection # None /\ ~Unwrap(world.connection).synced

(***************************************************************************)
(* Sessions of the client (checked under SpecClient)                       *)
(***************************************************************************)
\* the events sent by the step before the given position of the frame's events
EventsBefore(i) == SubSeq(world'.events, 1, i - 1)

\* C34: between two consecutive ConnectEvents of the client there is a
\* DisconnectEvent, and when a ConnectEvent is emitted no Replicated,
\* Predicted or Interpolated entity received in an earlier session exists,
\* whatever connect_client and disconnect_client requests were made.
C34_SessionsSeparatedByDisconnect ==
    [][pc = "state_transition"
       => \A i \in DOMAIN world'.events :
             world'.events[i].type = "ConnectEvent"
                => /\ ~OpenAfter(session_log.open, EventsBefore(i))
                   /\ session_log'.earlier = {}]_vars

(***************************************************************************)
(* The host-server client as the server sees it (checked under SpecClient) *)
(***************************************************************************)
\* the server events of the given type sent by the step
ServerEvents(type) ==
    {i \in DOMAIN world'.events : world'.events[i].type = type}

\* the states whose OnEnter schedule the step ran
EnteredByStep == {frame_entered'[i] : i \in DOMAIN frame_entered'}

\* C35: in host-server mode each entry into Connected spawns one client
\* entity, records it in HostServerMetadata and sends one server ConnectEvent
\* with it; each entry into Disconnected sends one server DisconnectEvent
\* with the recorded entity and clears the metadata, and sends none when no
\* entity is recorded; every server DisconnectEvent is for an entity whose
\* ConnectEvent has had no DisconnectEvent yet.
C35_HostServerEventsPaired ==
    [][(pc = "state_transition" /\ is_host_server_condition(world.client_config))
       => /\ IF "Connected" \in EnteredByStep
             THEN \E i \in ServerEvents("server::ConnectEvent") :
                     /\ ServerEvents("server::ConnectEvent") = {i}
                     /\ world'.client_entities = world.client_entities + 1
                     /\ world'.events[i].entity = world'.client_entities
                     /\ world'.metadata = Some(world'.events[i].entity)
                     /\ "Controlled" \in world'.entities
             ELSE /\ ServerEvents("server::ConnectEvent") = {}
                  /\ world'.client_entities = world.client_entities
          /\ IF "Disconnected" \in EnteredByStep /\ world.metadata # None
             THEN \E i \in ServerEvents("server::DisconnectEvent") :
                     /\ ServerEvents("server::DisconnectEvent") = {i}
                     /\ world'.events[i].entity = Unwrap(world.metadata)
                     /\ world'.metadata = None
             ELSE ServerEvents("server::DisconnectEvent") = {}
          /\ \A i \in ServerEvents("server::DisconnectEvent") :
                world'.events[i].entity
                   \in UnmatchedAfter(session_log.unmatched, EventsBefore(i))]_vars

\* the host client connected twice, and the second client entity is the one
\* of the server DisconnectEvent just sent
C35_Witness ==
    /\ is_host_server_condition(world.client_config)
    /\ cli_last.system = "apply_state_transition"
    /\ world.state = "Disconnected" /\ world.metadata = None
    /\ world.client_entities = 2
    /\ \E i \in DOMAIN world.events :
          /\ world.events[i].type = "server::DisconnectEvent"
          /\ world.events[i].entity = 2
    /\ 2 \notin session_log.unmatched

(***************************************************************************)
(* Sessions of a client index on the server (checked under SpecServer)     *)
(***************************************************************************)
\* C36: after a Server::update that processed the connect callback of a
\* client index, the Connection stored for that index, if there is one, is a
\* freshly constructed one, whether or not the index had a Connection with
\* channel state before.
C36_ReconnectGetsFreshConnection ==
    (srv_last.op = "update" /\ srv_last.ok)
       => \A client_idx \in srv_last.out :
             client_idx \in DOMAIN server.user_connections
                => /\ server.user_connections[client_idx].outbox = << >>
                   /\ server.user_connections[client_idx].received = 0

\* a client index whose earlier Connection held a message was connected
\* again by the last update and has a Connection
C36_Witness ==
    /\ srv_last.op = "update" /\ srv_last.ok
    /\ \E client_idx \in srv_last.out :
          /\ client_idx \in srv_used
          /\ client_idx \in DOMAIN server.user_connections
          /\ server.user_connections[client_idx] = NewConnection

(***************************************************************************)
(* Receiving on the server (checked under SpecServerRecv)                  *)
(***************************************************************************)
\* the packets netcode.recv() returned to the recv_packets call of the step
PacketsReturned ==
    SubSeq(server.packets, 1, Len(server.packets) - Len(server'.packets))

\* C37: every packet the transport returns to Server::recv_packets belongs to
\* a client index that has a Connection, so the call never fails with
\* "client not found"; when its packets are well-formed the call returns Ok
\* and leaves no packet of any client unread.
C37_RecvPacketsFindsEveryClient ==
    [][(srv_last'.op = "recv_packets" /\ serverVars' # serverVars)
       => /\ \A i \in DOMAIN PacketsReturned :
                PacketsReturned[i].client \in DOMAIN server.user_connections
          /\ (\A i \in DOMAIN server.packets : server.packets[i].ok)
                => (srv_last'.ok /\ server'.packets = << >>)]_vars

====
